---------------------------- MODULE Spec2Model ----------------------------
(***************************************************************************)
(* Model of question_randomizer.py: the allocation of a requested number   *)
(* of questions over the loaded files (QuestionDatabase.select_questions), *)
(* the ingestion loop (QuestionDatabase._load_files), the main flow        *)
(* (QuestionRandomizer.run) and the rewrite of one multiple-choice         *)
(* question (Question.randomize).                                          *)
(*                                                                         *)
(* A question is the pair <<source_file, k>>: the k-th question of the     *)
(* file with that path.  Paths are numbers; _load_files sorts them.        *)
(* A question text is a sequence of tokens (see the randomize section).    *)
(*                                                                         *)
(* The three public entry points are three families of initial states:     *)
(* select_questions called on an inventory (mode "api"), run() (mode       *)
(* "run") and Question.randomize() (mode "rand").                          *)
(***************************************************************************)
EXTENDS Integers, Sequences, FiniteSets, TLC

\* Bounds of the model.
MaxFiles == 3
MaxTotal == 6
MaxDocs == 3
MaxDocTotal == 4
MaxItems == 3

VARIABLES
    mode,            \* which entry point was called: "api", "run", "rand"
    pc,              \* position in the called code
    files,           \* QuestionDatabase.files: sequence of [path, n]
    num_questions,   \* the requested count
    selected,        \* select_questions: the local list `selected`
    file_selection,  \* select_questions: the plan, aligned with files
    remaining,       \* select_questions: the local `remaining`
    fi,              \* index of the for loop of the deficit pass
    dir_exists,      \* whether db_dir exists
    docs,            \* the sorted *.tex documents found under db_dir
    next_doc,        \* index of the for loop of _load_files
    output_opened,   \* whether the output file has been opened for writing
    output,          \* what has been written to the output file
    content,         \* Question.content
    alternatives,    \* _randomize_alternatives: the local `alternatives`
    gabarito,        \* _randomize_alternatives: `gabarito` (<<>> is None)
    other_alts,      \* _randomize_alternatives: `other_alts`
    match,           \* _randomize_alternatives: span of `match`, <<0, 0>> is None
    new_answerlist,  \* _randomize_alternatives: `new_answerlist`
    result           \* the value Question.randomize returns

selVars == <<files, num_questions, selected, file_selection, remaining, fi>>
runVars == <<dir_exists, docs, next_doc, output_opened, output>>
randVars == <<content, alternatives, gabarito, other_alts, match, new_answerlist, result>>
vars == <<mode, pc, selVars, runVars, randVars>>

----------------------------------------------------------------------------
(* Generic helpers *)

Min(a, b) == IF a < b THEN a ELSE b

Max(a, b) == IF a > b THEN a ELSE b

Range(s) == {s[i] : i \in 1..Len(s)}

\* random.shuffle: every reordering of the list.
Shuffles(s) == {[i \in 1..Len(s) |-> s[p[i]]] : p \in Permutations(1..Len(s))}

\* Python's round() on the non-negative quotient num/den: to the nearest
\* integer, a tie going to the even neighbour.  (For totals below 22 the
\* float product (count / total) * n has the exact quotient's rounding.)
Round(num, den) ==
    LET q == num \div den
        r == num % den
    IN  IF 2 * r < den THEN q
        ELSE IF 2 * r > den THEN q + 1
        ELSE IF q % 2 = 0 THEN q ELSE q + 1

----------------------------------------------------------------------------
(* QuestionDatabase *)

\* QuestionFile.questions, as a set.
Questions(qf) == {<<qf.path, k>> : k \in 1..qf.n}

\* QuestionFile.questions, in file order.
QuestionList(qf) == [k \in 1..qf.n |-> <<qf.path, k>>]

RECURSIVE get_total_questions(_)
get_total_questions(fs) ==
    IF fs = <<>> THEN 0 ELSE Head(fs).n + get_total_questions(Tail(fs))

get_file_count(fs) == Len(fs)

\* all_questions before the shuffle: the files' questions, file after file.
RECURSIVE AllQuestions(_)
AllQuestions(fs) ==
    IF fs = <<>> THEN <<>> ELSE QuestionList(Head(fs)) \o AllQuestions(Tail(fs))

\* The walk of the diversity regime, with the source-file test left out.
RECURSIVE DiversityWalkAnyFile(_, _, _, _, _)
DiversityWalkAnyFile(qs, i, sel, selected_files, n) ==
    IF i > Len(qs) THEN sel
    ELSE LET sel2 == Append(sel, qs[i])
         IN  IF Len(sel2) >= n THEN sel2
             ELSE DiversityWalkAnyFile(qs, i + 1, sel2, selected_files, n)

\* The walk of the diversity regime over the shuffled all_questions: take a
\* question when its source file is not used yet; stop once n are taken.
RECURSIVE DiversityWalk(_, _, _, _, _)
DiversityWalk(qs, i, sel, selected_files, n) ==
    IF i > Len(qs) THEN sel
    ELSE IF qs[i][1] \notin selected_files
         THEN LET sel2 == Append(sel, qs[i])
              IN  IF Len(sel2) >= n THEN sel2
                  ELSE DiversityWalk(qs, i + 1, sel2,
                                     selected_files \cup {qs[i][1]}, n)
         ELSE DiversityWalk(qs, i + 1, sel, selected_files, n)

\* round() taken as rounding half up.
NumToSelectHalfUp(count, total, n, rem) ==
    Min(Min(Max(1, (2 * count * n + total) \div (2 * total)), count), rem)

\* One iteration of the proportional pass: the count planned for a file.
NumToSelect(count, total, n, rem) ==
    Min(Min(Max(1, Round(count * n, total)), count), rem)

\* The proportional pass over files i..Len(fs): the plan and what remains.
RECURSIVE ProportionalPass(_, _, _, _, _, _)
ProportionalPass(fs, i, total, n, plan, rem) ==
    IF i > Len(fs) THEN [file_selection |-> plan, remaining |-> rem]
    ELSE LET k == NumToSelect(fs[i].n, total, n, rem)
         IN  ProportionalPass(fs, i + 1, total, n, Append(plan, k), rem - k)

\* A set as the list of its questions in ascending order.
RECURSIVE Ascending(_)
Ascending(S) ==
    IF S = {} THEN <<>>
    ELSE LET m == CHOOSE x \in S : \A y \in S : x[2] <= y[2]
         IN  <<m>> \o Ascending(S \ {m})

\* random.sample(qf.questions, k): k distinct questions of the file.  Only
\* the set drawn is kept, listed in ascending order: the order random.sample
\* returns them in is erased by the shuffle of line 232 before anyone reads it.
Samples(qf, k) ==
    {Ascending(T) : T \in {U \in SUBSET Questions(qf) : Cardinality(U) = k}}

\* The draws of all files from file i on, concatenated in file order.
RECURSIVE SampleAll(_, _, _)
SampleAll(fs, plan, i) ==
    IF i > Len(fs) THEN {<<>>}
    ELSE {s \o rest : s \in Samples(fs[i], plan[i]), rest \in SampleAll(fs, plan, i + 1)}

\* The return statement without its slice.
NoTruncate(s, n) == s

\* selected[:num_questions] for num_questions >= 0.
Truncate(s, n) == SubSeq(s, 1, Min(n, Len(s)))

----------------------------------------------------------------------------
(* select_questions, step by step *)

\* `if not self.files: return []`
SelectEmpty ==
    /\ pc = "select"
    /\ files = <<>>
    /\ selected' = <<>>
    /\ pc' = "returned"
    /\ UNCHANGED <<mode, files, num_questions, file_selection, remaining, fi,
                   runVars, randVars>>

\* The shuffle of all_questions and the diversity branch.
DiversityRegime ==
    /\ pc = "select"
    /\ files # <<>>
    /\ num_questions <= get_file_count(files)
    /\ \E all_questions \in Shuffles(AllQuestions(files)) :
           selected' = DiversityWalk(all_questions, 1, <<>>, {}, num_questions)
    /\ pc' = "final_shuffle"
    /\ UNCHANGED <<mode, files, num_questions, file_selection, remaining, fi,
                   runVars, randVars>>

\* The proportional pass (the shuffled all_questions is not read again).
ProportionalRegime ==
    /\ pc = "select"
    /\ files # <<>>
    /\ num_questions > get_file_count(files)
    /\ LET r == ProportionalPass(files, 1, get_total_questions(files),
                                 num_questions, <<>>, num_questions)
       IN  /\ file_selection' = r.file_selection
           /\ remaining' = r.remaining
    /\ pc' = "while"
    /\ UNCHANGED <<mode, files, num_questions, selected, fi, runVars, randVars>>

\* `while remaining > 0:`
WhileRemaining ==
    /\ pc = "while"
    /\ IF remaining > 0
       THEN pc' = "for" /\ fi' = 1
       ELSE pc' = "sample" /\ fi' = fi
    /\ UNCHANGED <<mode, files, num_questions, selected, file_selection,
                   remaining, runVars, randVars>>

\* The for loop of the deficit pass has gone through every file.
ForEnd ==
    /\ pc = "for"
    /\ fi > Len(files)
    /\ pc' = "while"
    /\ UNCHANGED <<mode, selVars, runVars, randVars>>

\* One iteration of the for loop of the deficit pass.
ForStep ==
    /\ pc = "for"
    /\ fi <= Len(files)
    /\ IF file_selection[fi] < files[fi].n
       THEN /\ file_selection' = [file_selection EXCEPT ![fi] = @ + 1]
            /\ remaining' = remaining - 1
            /\ IF remaining' = 0
               THEN pc' = "while" /\ fi' = fi
               ELSE pc' = "for" /\ fi' = fi + 1
       ELSE /\ fi' = fi + 1
            /\ pc' = "for"
            /\ UNCHANGED <<file_selection, remaining>>
    /\ UNCHANGED <<mode, files, num_questions, selected, runVars, randVars>>

\* The draw from each file.
SampleFiles ==
    /\ pc = "sample"
    /\ selected' \in SampleAll(files, file_selection, 1)
    /\ pc' = "final_shuffle"
    /\ UNCHANGED <<mode, files, num_questions, file_selection, remaining, fi,
                   runVars, randVars>>

\* The final shuffle and the return.
FinalShuffle ==
    /\ pc = "final_shuffle"
    /\ \E s \in Shuffles(selected) : selected' = Truncate(s, num_questions)
    /\ pc' = "returned"
    /\ UNCHANGED <<mode, files, num_questions, file_selection, remaining, fi,
                   runVars, randVars>>

----------------------------------------------------------------------------
(* QuestionDatabase._load_files and QuestionRandomizer.run *)

\* The prompts of run(), with the output file opened as soon as it is named.
RunStartOpensOutput ==
    /\ pc = "run"
    /\ pc' = "load"
    /\ output_opened' = TRUE
    /\ UNCHANGED <<mode, selVars, dir_exists, docs, next_doc, output, randVars>>

\* run(): the header and the prompts for the output file and the directory.
RunStart ==
    /\ pc = "run"
    /\ pc' = "load"
    /\ UNCHANGED <<mode, selVars, runVars, randVars>>

\* _load_files: the directory does not exist; FileNotFoundError leaves
\* QuestionDatabase() and is caught by run(), which reports it and ends.
LoadMissingDir ==
    /\ pc = "load"
    /\ ~dir_exists
    /\ pc' = "run_done"
    /\ UNCHANGED <<mode, selVars, runVars, randVars>>

\* _load_files: no *.tex file under the directory.
LoadNoTex ==
    /\ pc = "load"
    /\ dir_exists
    /\ docs = <<>>
    /\ pc' = "check_files"
    /\ UNCHANGED <<mode, selVars, runVars, randVars>>

\* _load_files: enter the loop over the sorted *.tex files.
LoadBegin ==
    /\ pc = "load"
    /\ dir_exists
    /\ docs # <<>>
    /\ pc' = "load_loop"
    /\ next_doc' = 1
    /\ UNCHANGED <<mode, selVars, dir_exists, docs, output_opened, output, randVars>>

\* One iteration of the loop with the try around the whole loop: the first
\* failing document ends the ingestion.
LoadFileAbortOnError ==
    /\ pc = "load_loop"
    /\ next_doc <= Len(docs)
    /\ LET d == docs[next_doc]
       IN  IF d.err
           THEN pc' = "check_files" /\ UNCHANGED <<files, next_doc>>
           ELSE /\ files' = IF d.n > 0
                            THEN Append(files, [path |-> d.path, n |-> d.n])
                            ELSE files
                /\ next_doc' = next_doc + 1
                /\ pc' = pc
    /\ UNCHANGED <<mode, num_questions, selected, file_selection, remaining, fi,
                   dir_exists, docs, output_opened, output, randVars>>

\* One iteration of the loop: QuestionFile(tex_file) raises and the document
\* is skipped, or it is appended when it holds at least one question.
LoadFile ==
    /\ pc = "load_loop"
    /\ next_doc <= Len(docs)
    /\ LET d == docs[next_doc]
       IN  files' = IF ~d.err /\ d.n > 0
                    THEN Append(files, [path |-> d.path, n |-> d.n])
                    ELSE files
    /\ next_doc' = next_doc + 1
    /\ UNCHANGED <<mode, pc, num_questions, selected, file_selection, remaining,
                   fi, dir_exists, docs, output_opened, output, randVars>>

\* The loop is over.
LoadEnd ==
    /\ pc = "load_loop"
    /\ next_doc > Len(docs)
    /\ pc' = "check_files"
    /\ UNCHANGED <<mode, selVars, runVars, randVars>>

\* run(): `if self.database.get_file_count() == 0: return`
CheckFiles ==
    /\ pc = "check_files"
    /\ pc' = IF get_file_count(files) = 0 THEN "run_done" ELSE "ask"
    /\ UNCHANGED <<mode, selVars, runVars, randVars>>

\* UserInterface.get_number_of_questions: it returns only a number in
\* 1..total_available, then run() calls select_questions with it.
GetNumber ==
    /\ pc = "ask"
    /\ num_questions' \in 1..get_total_questions(files)
    /\ pc' = "select"
    /\ UNCHANGED <<mode, files, selected, file_selection, remaining, fi,
                   runVars, randVars>>

\* run() after select_questions: return when nothing was selected, else
\* OutputWriter.write opens the output file and writes the questions.
WriteOutput ==
    /\ pc = "returned"
    /\ mode = "run"
    /\ IF selected = <<>>
       THEN UNCHANGED <<output_opened, output>>
       ELSE output_opened' = TRUE /\ output' = selected
    /\ pc' = "run_done"
    /\ UNCHANGED <<mode, selVars, dir_exists, docs, next_doc, randVars>>

----------------------------------------------------------------------------
(* Question.randomize *)

(***************************************************************************)
(* A text is a sequence of tokens: "B" is \begin{answerlist}, "E" is       *)
(* \end{answerlist}, "ti" and "di" are the item markers \ti and \di, "sp"  *)
(* is a blank, "nl" a line break, and any other token is a piece of text   *)
(* holding no blank, no line break and no backslash.  A marker followed    *)
(* at once by a text token is a longer command such as \times.             *)
(***************************************************************************)

IsSpace(t) == t \in {"sp", "nl"}

IsItemMarker(t) == t \in {"ti", "di"}

\* The least index i >= from with s[i] = t; 0 when there is none.
Find(s, t, from) ==
    LET I == {i \in from..Len(s) : s[i] = t}
    IN  IF I = {} THEN 0 ELSE CHOOSE i \in I : \A j \in I : i <= j

\* The least index >= j that holds no white space; Len(s) + 1 when none.
SkipSpace(s, j) ==
    LET I == {i \in j..Len(s) : ~IsSpace(s[i])}
    IN  IF I = {} THEN Len(s) + 1 ELSE CHOOSE i \in I : \A k \in I : i <= k

\* str.strip()
RECURSIVE Strip(_)
Strip(s) ==
    IF s = <<>> THEN s
    ELSE IF IsSpace(Head(s)) THEN Strip(Tail(s))
    ELSE IF IsSpace(s[Len(s)]) THEN Strip(SubSeq(s, 1, Len(s) - 1))
    ELSE s

is_multiple_choice(c) ==
    "B" \in Range(c) /\ ("ti" \in Range(c) \/ "di" \in Range(c))

\* re.search(answerlist_pattern, content, re.DOTALL): the first "B" and the
\* first "E" after it; <<0, 0>> when there is no match.
AnswerlistMatch(c) ==
    LET b == Find(c, "B", 1)
        e == IF b = 0 THEN 0 ELSE Find(c, "E", b + 1)
    IN  IF e = 0 THEN <<0, 0>> ELSE <<b, e>>

\* The lookahead of alt_pattern at index j: an item marker, or white space
\* up to \end{answerlist}.
Lookahead(s, j) ==
    /\ j <= Len(s)
    /\ \/ IsItemMarker(s[j])
       \/ LET k == SkipSpace(s, j) IN k <= Len(s) /\ s[k] = "E"

\* Where the item starting at marker i ends: \s+ takes the white space after
\* the marker, .*? the fewest tokens up to a lookahead.  0 when none.
ItemEnd(s, i) ==
    LET q == SkipSpace(s, i + 1)
        J == {j \in q..Len(s) : Lookahead(s, j)}
    IN  IF J = {} THEN 0 ELSE CHOOSE j \in J : \A k \in J : j <= k

\* alt_pattern matches at index i.
ItemStart(s, i) ==
    /\ i + 1 <= Len(s)
    /\ IsItemMarker(s[i])
    /\ IsSpace(s[i + 1])
    /\ ItemEnd(s, i) # 0

\* re.findall(alt_pattern, s, re.DOTALL) from index p on.
RECURSIVE FindAll(_, _)
FindAll(s, p) ==
    LET I == {i \in p..Len(s) : ItemStart(s, i)}
    IN  IF I = {} THEN <<>>
        ELSE LET i == CHOOSE x \in I : \A y \in I : x <= y
                 j == ItemEnd(s, i)
             IN  <<SubSeq(s, i, j - 1)>> \o FindAll(s, j)

IsGabarito(alt) == Strip(alt) # <<>> /\ Head(Strip(alt)) = "di"

\* The partition loop keeping the first \di item, the later ones going with
\* the other alternatives.
RECURSIVE PartitionFirstWins(_, _, _, _)
PartitionFirstWins(alts, i, gab, others) ==
    IF i > Len(alts) THEN [gabarito |-> gab, other_alts |-> others]
    ELSE IF IsGabarito(alts[i]) /\ gab = <<>>
         THEN PartitionFirstWins(alts, i + 1, alts[i], others)
         ELSE PartitionFirstWins(alts, i + 1, gab, Append(others, alts[i]))

\* The partition loop: every \di item overwrites gabarito, every other item
\* is appended to other_alts.  <<>> stands for None.
RECURSIVE Partition(_, _, _, _)
Partition(alts, i, gab, others) ==
    IF i > Len(alts) THEN [gabarito |-> gab, other_alts |-> others]
    ELSE IF IsGabarito(alts[i])
         THEN Partition(alts, i + 1, alts[i], others)
         ELSE Partition(alts, i + 1, gab, Append(others, alts[i]))

\* list.insert(pos, x) for 0 <= pos <= len
Insert(s, pos, x) == SubSeq(s, 1, pos) \o <<x>> \o SubSeq(s, pos + 1, Len(s))

\* The header used when the block holds no line break after its \begin:
\* \begin{answerlist}[label={\texttt{\Alph*}.},leftmargin=*] and a line break.
DefaultHeader == <<"B", "[label]", "nl">>

\* re.search(r'\\begin\{answerlist\}[^\n]*\n', block): from \begin to the
\* first line break after it, whatever lies between.
Header(block) ==
    LET b == Find(block, "B", 1)
        nl == IF b = 0 THEN 0 ELSE Find(block, "nl", b + 1)
    IN  IF nl = 0 THEN DefaultHeader ELSE SubSeq(block, b, nl)

Indent == <<"sp", "sp", "sp", "sp">>

RECURSIVE ItemLines(_)
ItemLines(alts) ==
    IF alts = <<>> THEN <<>>
    ELSE Indent \o Strip(Head(alts)) \o <<"nl">> \o ItemLines(Tail(alts))

NewAnswerlist(block, alts) == Header(block) \o ItemLines(alts) \o <<"E">>

IsAt(c, i, old) ==
    /\ i + Len(old) - 1 <= Len(c)
    /\ SubSeq(c, i, i + Len(old) - 1) = old

\* str.replace(old, new) from index i on: every occurrence of old, left to
\* right.
RECURSIVE Replace(_, _, _, _)
Replace(c, i, old, new) ==
    IF i > Len(c) THEN <<>>
    ELSE IF IsAt(c, i, old) THEN new \o Replace(c, i + Len(old), old, new)
    ELSE <<c[i]>> \o Replace(c, i + 1, old, new)

\* randomize() up to the partition: the early returns of the unchanged
\* text, or the match, the alternatives, gabarito and other_alts.
Extract ==
    /\ pc = "randomize"
    /\ LET m == AnswerlistMatch(content)
           alts == IF m = <<0, 0>> THEN <<>>
                   ELSE FindAll(SubSeq(content, m[1], m[2]), 1)
       IN  IF ~is_multiple_choice(content) \/ m = <<0, 0>> \/ alts = <<>>
           THEN /\ result' = content
                /\ pc' = "rand_done"
                /\ UNCHANGED <<match, alternatives, gabarito, other_alts>>
           ELSE /\ match' = m
                /\ alternatives' = alts
                /\ LET r == Partition(alts, 1, <<>>, <<>>)
                   IN  gabarito' = r.gabarito /\ other_alts' = r.other_alts
                /\ pc' = "shuffle"
                /\ result' = result
    /\ UNCHANGED <<mode, selVars, runVars, content, new_answerlist>>

\* random.shuffle(other_alts), then gabarito inserted at a random position.
ShuffleAlternatives ==
    /\ pc = "shuffle"
    /\ \E s \in Shuffles(other_alts) :
           IF gabarito # <<>>
           THEN \E insert_pos \in 0..Len(s) :
                    other_alts' = Insert(s, insert_pos, gabarito)
           ELSE other_alts' = s
    /\ pc' = "rebuild"
    /\ UNCHANGED <<mode, selVars, runVars, content, alternatives, gabarito,
                   match, new_answerlist, result>>

\* The new block and its substitution in the question's text.
Rebuild ==
    /\ pc = "rebuild"
    /\ LET answerlist_block == SubSeq(content, match[1], match[2])
       IN  /\ new_answerlist' = NewAnswerlist(answerlist_block, other_alts)
           /\ result' = Replace(content, 1, answerlist_block, new_answerlist')
    /\ pc' = "rand_done"
    /\ UNCHANGED <<mode, selVars, runVars, content, alternatives, gabarito,
                   other_alts, match>>

----------------------------------------------------------------------------
(* Initial states *)

RECURSIVE SumSeq(_)
SumSeq(s) == IF s = <<>> THEN 0 ELSE Head(s) + SumSeq(Tail(s))

\* Inventories: up to MaxFiles files, each with at least one question, at
\* most MaxTotal questions in all; paths ascending.
Inventories ==
    UNION {{[i \in 1..k |-> [path |-> i, n |-> c[i]]] :
               c \in {d \in [1..k -> 1..MaxTotal] : SumSeq(d) <= MaxTotal}} :
           k \in 0..MaxFiles}

\* The inventory of the documented scenario: 9 and 1 questions.
ScenarioFiles == <<[path |-> 1, n |-> 9], [path |-> 2, n |-> 1]>>

\* Directories: up to MaxDocs documents; each fails to load (err) or holds
\* n >= 0 questions, at most MaxDocTotal in all.  -1 stands for a failure.
Directories ==
    UNION {{[i \in 1..k |-> [path |-> i, err |-> c[i] < 0, n |-> Max(c[i], 0)]] :
               c \in {d \in [1..k -> -1..MaxDocTotal] :
                        SumSeq([j \in 1..k |-> Max(d[j], 0)]) <= MaxDocTotal}} :
           k \in 0..MaxDocs}

NoSelect ==
    /\ selected = <<>>
    /\ file_selection = <<>>
    /\ remaining = 0
    /\ fi = 0

NoRun ==
    /\ dir_exists = TRUE
    /\ docs = <<>>
    /\ next_doc = 0
    /\ output_opened = FALSE
    /\ output = <<>>

NoRand ==
    /\ content = <<>>
    /\ alternatives = <<>>
    /\ gabarito = <<>>
    /\ other_alts = <<>>
    /\ match = <<0, 0>>
    /\ new_answerlist = <<>>
    /\ result = <<>>

\* select_questions(num_questions) called on a loaded database.
InitApi ==
    /\ mode = "api"
    /\ pc = "select"
    /\ files \in Inventories
    /\ num_questions \in 0..(get_total_questions(files) + 1)
    /\ NoSelect /\ NoRun /\ NoRand

\* select_questions called on the scenario's inventory with the scenario's
\* request of 5, or with a smaller request that still exceeds the file count.
InitScenario ==
    /\ mode = "api"
    /\ pc = "select"
    /\ files = ScenarioFiles
    /\ num_questions \in 3..5
    /\ NoSelect /\ NoRun /\ NoRand

\* run() called.
InitRun ==
    /\ mode = "run"
    /\ pc = "run"
    /\ files = <<>>
    /\ num_questions = 0
    /\ NoSelect
    /\ dir_exists \in BOOLEAN
    /\ docs \in (IF dir_exists THEN Directories ELSE {<<>>})
    /\ next_doc = 0
    /\ output_opened = FALSE
    /\ output = <<>>
    /\ NoRand

\* The text of item i.
Letters == <<"a", "b", "c", "d", "e", "f", "g", "h">>

\* The items of an answer list: marks[i] is the marker of item i, sep is
\* what follows each item.
RECURSIVE Items(_, _, _)
Items(marks, sep, i) ==
    IF i > Len(marks) THEN <<>>
    ELSE <<marks[i], "sp", Letters[i]>> \o sep \o Items(marks, sep, i + 1)

\* What may follow \begin{answerlist}: nothing, a blank, a line break, or
\* formatting directives and a line break.
AfterBegin == {<<>>, <<"sp">>, <<"nl">>, <<"[opts]", "nl">>}

ItemSeparators == {<<"sp">>, <<"nl">>}

\* Answer lists of up to MaxItems items.
AnswerLists ==
    UNION {{<<"B">> \o h \o Items(marks, sep, 1) \o <<"E">> :
               marks \in [1..k -> {"ti", "di"}], h \in AfterBegin,
               sep \in ItemSeparators} :
           k \in 0..MaxItems}

\* A second answer list, unlike the generated ones.
OtherList == <<"B", "nl", "ti", "sp", "z", "nl", "E">>

\* Question texts: a stem, an answer list, and then nothing, the same
\* answer list again, or another one; and texts with no complete list.
Contents ==
    UNION {{<<"q", "nl">> \o l,
            <<"q", "nl">> \o l \o <<"nl", "r", "nl">> \o l,
            <<"q", "nl">> \o l \o <<"nl">> \o OtherList} : l \in AnswerLists}
    \cup {<<"q">>,
          <<"q", "nl", "B", "nl", "ti", "sp", "a">>,
          <<"q", "nl", "B", "nl", "ti", "m", "nl", "E">>}

\* Question(content, source_file).randomize() called.
InitRand ==
    /\ mode = "rand"
    /\ pc = "randomize"
    /\ files = <<>>
    /\ num_questions = 0
    /\ NoSelect /\ NoRun
    /\ content \in Contents
    /\ alternatives = <<>>
    /\ gabarito = <<>>
    /\ other_alts = <<>>
    /\ match = <<0, 0>>
    /\ new_answerlist = <<>>
    /\ result = <<>>

Init == InitApi \/ InitScenario \/ InitRun \/ InitRand

Next ==
    \/ SelectEmpty
    \/ DiversityRegime
    \/ ProportionalRegime
    \/ WhileRemaining
    \/ ForEnd
    \/ ForStep
    \/ SampleFiles
    \/ FinalShuffle
    \/ RunStart
    \/ LoadMissingDir
    \/ LoadNoTex
    \/ LoadBegin
    \/ LoadFile
    \/ LoadEnd
    \/ CheckFiles
    \/ GetNumber
    \/ WriteOutput
    \/ Extract
    \/ ShuffleAlternatives
    \/ Rebuild

Spec == Init /\ [][Next]_vars

\* The code is one sequential thread: a step that can be taken is taken.
SelectSteps ==
    \/ SelectEmpty
    \/ DiversityRegime
    \/ ProportionalRegime
    \/ WhileRemaining
    \/ ForEnd
    \/ ForStep
    \/ SampleFiles
    \/ FinalShuffle

FairSpec == Spec /\ WF_vars(SelectSteps)

----------------------------------------------------------------------------
(* Properties *)

NoDuplicates(s) == \A i, j \in 1..Len(s) : i # j => s[i] # s[j]

AllQuestionSet(fs) == UNION {Questions(fs[i]) : i \in 1..Len(fs)}

SourceFiles(s) == {s[i][1] : i \in 1..Len(s)}

CountFrom(s, path) == Cardinality({i \in 1..Len(s) : s[i][1] = path})

\* C1 (allocation conservation): when select_questions returns for a
\* request of at most the total available, the result holds exactly
\* num_questions questions, none twice, each one a question of some file.
C1_AllocationConservation ==
    (pc = "returned" /\ num_questions <= get_total_questions(files)) =>
        /\ Len(selected) = num_questions
        /\ NoDuplicates(selected)
        /\ Range(selected) \subseteq AllQuestionSet(files)

\* C1 witness: a returned selection of the proportional regime that leaves
\* some questions out.
C1_Witness ==
    /\ pc = "returned"
    /\ Len(files) >= 2
    /\ num_questions > Len(files)
    /\ num_questions < get_total_questions(files)
    /\ Len(selected) = num_questions

\* C2 (diversity guarantee): when the request is at most the number of
\* files, the returned questions come from num_questions distinct files.
C2_DiversityGuarantee ==
    (pc = "returned" /\ files # <<>> /\ num_questions <= get_file_count(files)) =>
        /\ Len(selected) = num_questions
        /\ Cardinality(SourceFiles(selected)) = num_questions

\* C2 witness: one question from each of at least two files, some file
\* holding more than one question.
C2_Witness ==
    /\ pc = "returned"
    /\ Len(files) >= 2
    /\ num_questions = Len(files)
    /\ get_total_questions(files) > Len(files)
    /\ Cardinality(SourceFiles(selected)) = Len(files)

\* C3 (proportional floor): when the request exceeds the number of files
\* and is at most the total, every file contributes a question.
C3_ProportionalFloor ==
    (/\ pc = "returned"
     /\ num_questions > get_file_count(files)
     /\ num_questions <= get_total_questions(files)) =>
        \A i \in 1..Len(files) : files[i].path \in SourceFiles(selected)

\* C5 (fatal errors leave no output): the output file is opened only by
\* run(), only when the directory exists, the inventory is not empty and
\* select_questions has returned a non-empty selection; a run that ends on
\* a missing directory or an empty inventory has not opened it.
C5_NoOutputOnFatalError ==
    /\ output_opened =>
          /\ mode = "run"
          /\ pc = "run_done"
          /\ dir_exists
          /\ files # <<>>
          /\ selected # <<>>
    /\ (pc = "run_done" /\ (~dir_exists \/ files = <<>>)) =>
          (~output_opened /\ output = <<>>)

\* C5 witness: a run over a directory whose documents yield no question
\* has ended without output.
C5_Witness ==
    /\ pc = "run_done"
    /\ dir_exists
    /\ docs # <<>>
    /\ files = <<>>
    /\ ~output_opened

Loads(d) == ~d.err

\* The inventory of documents that all load: those holding a question, in
\* order.
RECURSIVE InventoryOf(_)
InventoryOf(ds) ==
    IF ds = <<>> THEN <<>>
    ELSE (IF Head(ds).n > 0
          THEN <<[path |-> Head(ds).path, n |-> Head(ds).n]>>
          ELSE <<>>) \o InventoryOf(Tail(ds))

LoadFinished == mode = "run" /\ pc \notin {"run", "load", "load_loop"}

\* C6 (per-document isolation): once _load_files is over, the inventory is
\* the one the documents that load would give alone, and a run whose
\* loadable documents hold a question ends with the output written.
C6_PerDocumentIsolation ==
    /\ (LoadFinished /\ dir_exists) => files = InventoryOf(SelectSeq(docs, Loads))
    /\ (mode = "run" /\ pc = "run_done" /\ dir_exists
          /\ InventoryOf(SelectSeq(docs, Loads)) # <<>>) => output_opened

\* C6 witness: a document failed before a document holding questions, and
\* the run went on to write the output.
C6_Witness ==
    /\ mode = "run"
    /\ pc = "run_done"
    /\ output_opened
    /\ \E i, j \in 1..Len(docs) : i < j /\ docs[i].err /\ Loads(docs[j]) /\ docs[j].n > 0

\* C8 (the deficit pass terminates): select_questions called with a request
\* above the number of files always returns.
C8_DeficitPassTerminates ==
    (pc = "select" /\ num_questions > get_file_count(files)) ~> (pc = "returned")

\* C10 (scenario): files of 9 and 1 questions and a request of 5 give the
\* plan 4 and 1, and a result of 4 questions of the first file and 1 of
\* the second.
C10_Scenario ==
    (files = ScenarioFiles /\ num_questions = 5) =>
        /\ pc \in {"sample", "final_shuffle", "returned"} => file_selection = <<4, 1>>
        /\ pc = "returned" =>
              /\ CountFrom(selected, 1) = 4
              /\ CountFrom(selected, 2) = 1

\* C10 witness: the scenario's call has returned.
C10_Witness ==
    /\ files = ScenarioFiles
    /\ num_questions = 5
    /\ pc = "returned"
    /\ Len(selected) = 5

GabaritoIndexes(alts) == {i \in 1..Len(alts) : IsGabarito(alts[i])}

FirstIndex(I) == CHOOSE i \in I : \A j \in I : i <= j

LastIndex(I) == CHOOSE i \in I : \A j \in I : i >= j

Without(s, i) == SubSeq(s, 1, i - 1) \o SubSeq(s, i + 1, Len(s))

IsDistractor(alt) == ~IsGabarito(alt)

ItemsOf(c) ==
    LET m == AnswerlistMatch(c)
    IN  IF m = <<0, 0>> THEN <<>> ELSE FindAll(SubSeq(c, m[1], m[2]), 1)

IsPermutationOf(s, t) ==
    /\ Len(s) = Len(t)
    /\ \E p \in Permutations(1..Len(s)) : \A i \in 1..Len(s) : s[i] = t[p[i]]

Stripped(s) == [i \in 1..Len(s) |-> Strip(s[i])]

\* C4 (shuffle correctness): for a question whose first answer list holds
\* one \di item and K \ti items, the answer list of the output holds K + 1
\* items, a permutation of the original ones, the \di item among them.
C4_ShuffleCorrectness ==
    (pc = "rand_done" /\ Cardinality(GabaritoIndexes(ItemsOf(content))) = 1) =>
        /\ Len(ItemsOf(result)) = Len(ItemsOf(content))
        /\ IsPermutationOf(Stripped(ItemsOf(result)), Stripped(ItemsOf(content)))
        /\ \E i \in 1..Len(ItemsOf(result)) :
               Strip(ItemsOf(result)[i]) = Strip(gabarito)

\* C9 (frame of the rewrite): the output is the text with the span of the
\* match replaced by the new block and nothing else changed; a text that is
\* not rewritten is returned as it is.
C9_OnlyFirstRegionReplaced ==
    pc = "rand_done" =>
        IF match = <<0, 0>>
        THEN result = content
        ELSE result = SubSeq(content, 1, match[1] - 1) \o new_answerlist
                        \o SubSeq(content, match[2] + 1, Len(content))

=============================================================================
